---- MODULE Spec2Model ----
(***************************************************************************)
(* Hash-join build stage of the pipeline engine: the per-lane              *)
(* HashJoinBuildOperator (prepare / push_chunk / set_finishing / close),   *)
(* the shared Joiner's reference count, the PartialRuntimeFilterMerger     *)
(* barrier and the RuntimeFilterHub.                                       *)
(*                                                                         *)
(* The operator's methods are translated from                              *)
(* be/src/exec/pipeline/hashjoin/hash_join_build_operator.cpp and          *)
(* be/src/common/status.h.  The collaborators whose bodies are not part of *)
(* those files (the merger, the Joiner, the Hub, Operator::prepare, the    *)
(* once-detector and the driver that schedules the calls) are modelled     *)
(* from the design document; each such definition says so.                 *)
(***************************************************************************)
EXTENDS Integers, FiniteSets, Sequences, TLC

\* Degree of parallelism of the build pipeline (number of driver sequences).
NumLanes == 2
\* Largest number of rows one lane appends before it finishes.
MaxRows == 1
\* Largest number of redundant calls (a repeated set_finishing, a repeated
\* close) in the specifications that admit them.
MaxRedundant == 1
\* Largest dop a factory is created with.
MaxDop == 3
\* Largest number of operators one factory creates.
MaxOperators == 3
\* Largest number of configured spill directories.
MaxDirs == 2
\* Largest number of acquire_writable_dir calls.
MaxAcquire == 3
\* Largest number of call_function_in_pthread calls.
MaxCalls == 2

Lanes == 0..(NumLanes - 1)
ChunkSizes == 1..MaxRows

\* TStatusCode values used by the build operator and its collaborators.
OK == "OK"
CANCELLED == "CANCELLED"
INTERNAL_ERROR == "INTERNAL_ERROR"
NOT_IMPLEMENTED_ERROR == "NOT_IMPLEMENTED_ERROR"
MEM_LIMIT_EXCEEDED == "MEM_LIMIT_EXCEEDED"
INVALID_ARGUMENT == "INVALID_ARGUMENT"
IO_ERROR == "IO_ERROR"
CAPACITY_LIMIT_EXCEED == "CAPACITY_LIMIT_EXCEED"
NONE == "none"
\* What the model reads at an index behind the end of _string_key_columns.
NoSlot == "no slot"

VARIABLES
    phase,              \* driver: "prepare", "run", "abort"; "terminated": process gone
    cancelled,          \* RuntimeState::is_cancelled()
    distribution_mode,  \* _distribution_mode of the factory
    op_state,           \* per lane: lifecycle stage of the build operator, if it exists
    acquired,           \* per lane: Joiner references taken by prepare
    prepare_status,     \* per lane: Status returned by prepare
    ht_rows,            \* per lane: rows appended to the lane's share
    pc,                 \* per lane: position inside set_finishing
    once,               \* per lane: _set_finishing_once
    is_finished,        \* per lane: _is_finished
    sf_result,          \* per lane: Status of the first set_finishing call
    sf_last,            \* per lane: Status of the latest set_finishing call
    sf_calls,           \* per lane: number of set_finishing invocations
    close_calls,        \* per lane: number of close invocations
    work,               \* per lane: how often each step of set_finishing ran
    add_result,         \* per lane: what add_partial_filters returned
    string_key_columns, \* factory: _string_key_columns, by driver sequence (NoSlot behind its end)
    merger,             \* PartialRuntimeFilterMerger
    joiner_ref,         \* Joiner reference count
    joiner_closed,      \* Joiner table and filter state destroyed
    joiner_phase,       \* Joiner: "build" or "probe"
    hub,                \* RuntimeFilterHub entry of this plan node
    hub_set_count,      \* number of set_collector calls for this plan node
    published,          \* number of publish_runtime_filters calls
    prober,             \* per lane: probe operator "none" or "closed"
    query_status,       \* overall status of the query
    pull_result,        \* per lane: what the latest pull_chunk call gave its caller
    push_result,        \* per lane: Status the latest push_chunk call returned
    status,             \* Status objects of a caller: liveness, _state, _checked
    history,            \* per Status object: what has been done to it (bookkeeping)
    report,             \* what the latest ~Status wrote: nothing or a defect report
    boundary,           \* how the latest RETURN_IF_EXCEPTION block was left
    factory,            \* HashJoinBuildOperatorFactory: key-column storage and its operators
    dir_manager,        \* spill::DirManager: _dirs, _idx and its callers
    udf                 \* call_function_in_pthread: promises, the UDF call pool, its worker

vars == <<phase, cancelled, distribution_mode, op_state, acquired, prepare_status,
          ht_rows, pc, once, is_finished, sf_result, sf_last, sf_calls,
          close_calls, work, add_result, string_key_columns, merger, joiner_ref,
          joiner_closed, joiner_phase, hub, hub_set_count, published, prober,
          query_status, pull_result, push_result, status, history, report, boundary,
          factory, dir_manager, udf>>

schedVars == <<phase, cancelled, distribution_mode>>
joinerVars == <<joiner_ref, joiner_closed, joiner_phase>>
hubVars == <<hub, hub_set_count, published>>
callVars == <<sf_calls, close_calls>>
finishVars == <<is_finished, sf_result, sf_last, query_status>>
statusVars == <<status, history, report, boundary>>
serviceVars == <<dir_manager, udf>>
otherVars == <<pull_result, statusVars, factory, serviceVars>>
callerVars == <<push_result, otherVars>>

\* The driver sequences the pipeline builder asks the factory for: a
\* broadcast join has one build operator (driver sequence 0), a partitioned
\* join has one per driver sequence.
PlannedBuildLanes(mode) == IF mode = "BROADCAST" THEN {0} ELSE Lanes

\* The dop the planned operators are created with, as far as the driver
\* sequences of the model can tell: a partitioned join has one build operator
\* per driver sequence below the dop; the one build operator of a broadcast
\* join is created with the dop of its pipeline, whatever it is.
PlannedDops(mode) == IF mode = "BROADCAST" THEN 1..NumLanes ELSE {NumLanes}

\* The driver sequences whose build operator exists.
BuildLanes == {i \in Lanes : op_state[i] # "NoOperator"}

NoWork == [build_ht |-> 0, create_rf |-> 0, retain |-> 0, add |-> 0,
           publish |-> 0, install |-> 0, enter_probe |-> 0]

Bump(w, f) == [w EXCEPT ![f] = @ + 1]

----------------------------------------------------------------------------
(* Status *)

\* Status::update: adopt new_status only when the receiver is ok.
update(cur, new_status) == IF cur = OK THEN new_status ELSE cur

\* The Status objects a caller holds.
StatusNames == {"s1", "s2"}

\* _state of an OK status.
Nullptr == [heap |-> "null", code |-> OK, msg |-> ""]

\* Status::moved_from_state: the state given to the source of a move.  It is a
\* static array that ~Status must not delete, distinct from nullptr and from
\* every new[] array; its code byte is INTERNAL_ERROR.
moved_from_state == [heap |-> "static", code |-> INTERNAL_ERROR, msg |-> ""]

\* Status::is_moved_from
is_moved_from(state) == state = moved_from_state

\* _state arrays made by Status(code, msg): code and message.
ErrorStates ==
    {[heap |-> "new", code |-> INTERNAL_ERROR, msg |-> "m1"],
     [heap |-> "new", code |-> INTERNAL_ERROR, msg |-> "m2"],
     [heap |-> "new", code |-> CANCELLED, msg |-> "m2"]}

\* Status::copy_state: a new array with the same code, message and context.
copy_state(state) == [state EXCEPT !.heap = "new"]

\* A Status object that does not exist (not yet constructed, or destroyed).
NoStatus == [live |-> FALSE, state |-> Nullptr, checked |-> FALSE]

\* Status::mark_checked and Status::must_check, with
\* STARROCKS_ASSERT_STATUS_CHECKED defined.
mark_checked(s) == [s EXCEPT !.checked = TRUE]
must_check(s) == [s EXCEPT !.checked = FALSE]

\* Status::ok and Status::code: the values they return (both also mark the
\* object checked).
ok(s) == s.state = Nullptr
code(s) == IF s.state = Nullptr THEN OK ELSE s.state.code

\* Status(code, msg) and Status(): _checked starts false.
construct(state) == [live |-> TRUE, state |-> state, checked |-> FALSE]

\* Status(const Status& s): the new object and what becomes of s.
copy_ctor(s) ==
    [self |-> must_check(construct(IF s.state = Nullptr THEN Nullptr
                                    ELSE copy_state(s.state))),
     s |-> mark_checked(s)]

\* Faulty variant: the move constructor leaves its source to be checked by the
\* caller.
move_ctor_source_unchecked(s) ==
    [self |-> must_check(construct(s.state)),
     s |-> [s EXCEPT !.state = moved_from_state]]

\* Status(Status&& s)
move_ctor(s) ==
    [self |-> must_check(construct(s.state)),
     s |-> mark_checked([s EXCEPT !.state = moved_from_state])]

\* operator=(const Status& s), this != &s: Status tmp(s); swap the states;
\* tmp.mark_checked(); must_check().  tmp dies checked, without a report.
copy_assign(self, s) ==
    LET c == copy_ctor(s)
    IN [self |-> must_check([self EXCEPT !.state = c.self.state]), s |-> c.s]

\* operator=(Status&& s), this != &s
move_assign(self, s) ==
    LET c == move_ctor(s)
    IN [self |-> must_check([self EXCEPT !.state = c.self.state]), s |-> c.s]

\* Faulty variant: the latest error wins, update assigns whatever it is given.
update_copy_last_wins(self, s) ==
    LET arg == mark_checked(s)
        r == copy_assign(mark_checked(self), arg)
    IN [self |-> must_check(r.self), s |-> r.s]

\* Status::update(const Status& new_status)
update_copy(self, s) ==
    LET arg == mark_checked(s)
        me == mark_checked(self)   \* ok() marks the receiver
    IN IF ok(self)
       THEN LET r == copy_assign(me, arg)
            IN [self |-> must_check(r.self), s |-> r.s]
       ELSE [self |-> me, s |-> arg]

\* Status::update(Status&& new_status)
update_move(self, s) ==
    LET arg == mark_checked(s)
        me == mark_checked(self)
    IN IF ok(self)
       THEN LET r == move_assign(me, arg)
            IN [self |-> must_check(r.self), s |-> r.s]
       ELSE [self |-> me, s |-> arg]

\* Bookkeeping for one Status object: whether a predicate, code() or
\* permit_unchecked_error was called on it since it was last constructed,
\* assigned or set by an adopting update (inspected); whether since then it
\* was the source of a copy, a move or an update (handed), or the receiver of
\* an update that kept its failure (kept); whether it is the source of a move
\* (moved); whether must_check() was called on it after the latest of these
\* calls (rearmed);
\* and the first non-success state in the sequence of states it was
\* constructed or assigned with and then updated with (first).
NoHistory == [inspected |-> FALSE, handed |-> FALSE, kept |-> FALSE,
              moved |-> FALSE, rearmed |-> FALSE, first |-> Nullptr]

fresh(state) == [NoHistory EXCEPT !.first = state]

----------------------------------------------------------------------------
(* Collaborators *)

\* PartialRuntimeFilterMerger::incr_builder
incr_builder(m) == [m EXCEPT !.num_builders = @ + 1]

\* PartialRuntimeFilterMerger::add_partial_filters: a call after the expected
\* count has been reached is an internal error and changes nothing; otherwise
\* the contribution is stored in the lane's slot, the row count is accumulated
\* and the call reports whether it completed the expected count.
add_partial_filters(m, idx, ht_row_count) ==
    IF m.received >= m.num_builders
    THEN [merger |-> m, status |-> INTERNAL_ERROR, value |-> FALSE]
    ELSE LET m2 == [m EXCEPT !.received = @ + 1,
                             !.slots = [@ EXCEPT ![idx] = ht_row_count],
                             !.total_rows = @ + ht_row_count]
         IN [merger |-> m2, status |-> OK, value |-> (m2.received = m2.num_builders)]

\* Joiner::ref
ref(c) == c + 1

\* Joiner::unref
unref(c) == c - 1

\* RuntimeFilterHub::get_collector: the collector installed for the plan node,
\* or "not ready" while none has been installed.
NotReady == [ready |-> FALSE, total_rows |-> 0, writer |-> -1]

get_collector(h) ==
    IF h.present
    THEN [ready |-> TRUE, total_rows |-> h.total_rows, writer |-> h.writer]
    ELSE NotReady

\* Operator::prepare may fail before the build operator has touched shared state.
OperatorPrepareStatus == {OK, INTERNAL_ERROR}
\* Joiner::prepare_builder
PrepareBuilderStatus == {OK, MEM_LIMIT_EXCEEDED}
\* Joiner::build_ht
BuildHtStatus == {OK, MEM_LIMIT_EXCEEDED}
\* Joiner::create_runtime_filters
CreateRuntimeFiltersStatus == {OK, CAPACITY_LIMIT_EXCEED}
\* Joiner::append_chunk_to_ht
AppendChunkStatus == {OK, MEM_LIMIT_EXCEEDED}

\* Joiner::unref reports whether this release was the one that brought the
\* count to zero, in which case the table and filter state are destroyed.
last_reference(c) == unref(c) = 0

----------------------------------------------------------------------------
(* Initial state: the factory has created the build operators the pipeline   *)
(* builder planned (create sized _string_key_columns to dop); nothing is     *)
(* prepared yet.                                                             *)

\* Driver sequences a factory can be asked for.
DriverSequences == 0..(MaxDop - 1)

\* A factory right after construction: _string_key_columns is empty and no
\* operator has been created.  ops lists the operators in creation order,
\* first_dop is the dop of the first create call, past_end what a write
\* behind the end of _string_key_columns did, race_crash whether writes to
\* one slot that overlapped ended the process.
NoFactory == [size |-> 0, first_dop |-> 0, resizes |-> 0,
              ops |-> <<>>,
              slots |-> [q \in DriverSequences |-> "empty"],
              past_end |-> NONE, race_crash |-> FALSE]

\* Callers of the spill directory manager.
Callers == {"c1", "c2"}

\* A DirManager before init: no directory, _idx = 0, no call in progress.
\* Directories are named 1, 2, ...; 0 is no result, -1 a read past the list.
NoDirManager == [init_status |-> NONE, dirs |-> <<>>, idx |-> 0, calls |-> 0,
                 pc |-> [c \in Callers |-> "idle"],
                 ticket |-> [c \in Callers |-> -1],
                 slot |-> [c \in Callers |-> -1],
                 result |-> [c \in Callers |-> 0]]

\* Threads that call call_function_in_pthread.
Threads == {"bthread", "pthread"}

\* Nothing has been called yet; the pool's worker runs under its own tracker.
NoUdf == [promise |-> <<>>, func |-> <<>>, queue |-> <<>>,
          worker |-> [pc |-> "idle", task |-> 0, st |-> OK,
                      tracker |-> "process", prev_tracker |-> NONE,
                      before |-> NONE]]

Init ==
    /\ phase = "prepare"
    /\ cancelled = FALSE
    /\ distribution_mode \in {"BROADCAST", "PARTITIONED"}
    /\ op_state = [i \in Lanes |->
                       IF i \in PlannedBuildLanes(distribution_mode)
                       THEN "Created" ELSE "NoOperator"]
    /\ acquired = [i \in Lanes |-> 0]
    /\ prepare_status = [i \in Lanes |-> NONE]
    /\ ht_rows = [i \in Lanes |-> 0]
    /\ pc = [i \in Lanes |-> "idle"]
    /\ once = [i \in Lanes |-> FALSE]
    /\ is_finished = [i \in Lanes |-> FALSE]
    /\ sf_result = [i \in Lanes |-> NONE]
    /\ sf_last = [i \in Lanes |-> NONE]
    /\ sf_calls = [i \in Lanes |-> 0]
    /\ close_calls = [i \in Lanes |-> 0]
    /\ work = [i \in Lanes |-> NoWork]
    /\ add_result = [i \in Lanes |-> NONE]
    /\ \E dop \in PlannedDops(distribution_mode) :
          string_key_columns = [i \in Lanes |->
                                   IF i < dop THEN "empty" ELSE NoSlot]
    /\ merger = [num_builders |-> 0, received |-> 0,
                 slots |-> [i \in Lanes |-> -1], total_rows |-> 0]
    /\ joiner_ref = 0
    /\ joiner_closed = FALSE
    /\ joiner_phase = "build"
    /\ hub = [present |-> FALSE, total_rows |-> 0, writer |-> -1]
    /\ hub_set_count = 0
    /\ published = 0
    /\ prober = [i \in Lanes |-> "none"]
    /\ query_status = OK
    /\ pull_result = [i \in Lanes |-> NONE]
    /\ push_result = [i \in Lanes |-> NONE]
    /\ status = [n \in StatusNames |-> NoStatus]
    /\ history = [n \in StatusNames |-> NoHistory]
    /\ report = NONE
    /\ boundary = NONE
    /\ factory = NoFactory
    /\ dir_manager = NoDirManager
    /\ udf = NoUdf

----------------------------------------------------------------------------
(* HashJoinBuildOperator *)

\* Faulty variant: the lane is not registered with the merger.
prepare_no_incr(i) ==
    /\ \E st1 \in OperatorPrepareStatus :
         IF st1 # OK
         THEN /\ prepare_status' = [prepare_status EXCEPT ![i] = st1]
              /\ op_state' = [op_state EXCEPT ![i] = "PrepareFailed"]
              /\ query_status' = update(query_status, st1)
              /\ UNCHANGED <<joiner_ref, acquired>>
         ELSE \E st2 \in PrepareBuilderStatus :
              /\ joiner_ref' = ref(ref(joiner_ref))
              /\ acquired' = [acquired EXCEPT ![i] = 2]
              /\ prepare_status' = [prepare_status EXCEPT ![i] = st2]
              /\ op_state' = [op_state EXCEPT
                     ![i] = IF st2 = OK THEN "Prepared" ELSE "PrepareFailed"]
              /\ query_status' = update(query_status, st2)
    /\ UNCHANGED <<schedVars, ht_rows, pc, once, is_finished, sf_result, sf_last,
                   callVars, work, add_result, string_key_columns, merger,
                   joiner_closed, joiner_phase, hubVars, prober, callerVars>>

\* HashJoinBuildOperator::prepare
prepare(i) ==
    /\ \E st1 \in OperatorPrepareStatus :
         IF st1 # OK
         THEN \* RETURN_IF_ERROR(Operator::prepare(state))
              /\ prepare_status' = [prepare_status EXCEPT ![i] = st1]
              /\ op_state' = [op_state EXCEPT ![i] = "PrepareFailed"]
              /\ query_status' = update(query_status, st1)
              /\ UNCHANGED <<merger, joiner_ref, acquired>>
         ELSE \E st2 \in PrepareBuilderStatus :
              /\ merger' = incr_builder(merger)
              \* one reference for the prober, one for the builder
              /\ joiner_ref' = ref(ref(joiner_ref))
              /\ acquired' = [acquired EXCEPT ![i] = 2]
              \* RETURN_IF_ERROR(_join_builder->prepare_builder(...))
              /\ prepare_status' = [prepare_status EXCEPT ![i] = st2]
              /\ op_state' = [op_state EXCEPT
                     ![i] = IF st2 = OK THEN "Prepared" ELSE "PrepareFailed"]
              /\ query_status' = update(query_status, st2)
    /\ UNCHANGED <<schedVars, ht_rows, pc, once, is_finished, sf_result, sf_last,
                   callVars, work, add_result, string_key_columns, joiner_closed,
                   joiner_phase, hubVars, prober, callerVars>>

\* Faulty variant: close does not release the builder's reference.
close_no_unref(i) ==
    /\ op_state' = [op_state EXCEPT ![i] = "Closed"]
    /\ close_calls' = [close_calls EXCEPT ![i] = @ + 1]
    /\ UNCHANGED <<schedVars, acquired, prepare_status, ht_rows, pc, once,
                   finishVars, sf_calls, work, add_result, string_key_columns,
                   merger, joinerVars, hubVars, prober, callerVars>>

\* Faulty variant: close also drops the plan node's collector from the Hub.
close_drop_collector(i) ==
    /\ joiner_ref' = unref(joiner_ref)
    /\ joiner_closed' = (joiner_closed \/ last_reference(joiner_ref))
    /\ op_state' = [op_state EXCEPT ![i] = "Closed"]
    /\ close_calls' = [close_calls EXCEPT ![i] = @ + 1]
    /\ hub' = [present |-> FALSE, total_rows |-> 0, writer |-> -1]
    /\ UNCHANGED <<schedVars, acquired, prepare_status, ht_rows, pc, once,
                   finishVars, sf_calls, work, add_result, string_key_columns,
                   merger, joiner_phase, hub_set_count, published, prober,
                   callerVars>>

\* HashJoinBuildOperator::close
close(i) ==
    /\ joiner_ref' = unref(joiner_ref)
    /\ joiner_closed' = (joiner_closed \/ last_reference(joiner_ref))
    /\ op_state' = [op_state EXCEPT ![i] = "Closed"]
    /\ close_calls' = [close_calls EXCEPT ![i] = @ + 1]
    /\ UNCHANGED <<schedVars, acquired, prepare_status, ht_rows, pc, once,
                   finishVars, sf_calls, work, add_result, string_key_columns,
                   merger, joiner_phase, hubVars, prober, callerVars>>

\* Faulty variant: push_chunk also feeds the rows to the merger and waits until
\* no sibling lane is inside set_finishing.
push_chunk_merging(i, n) ==
    /\ \A j \in Lanes \ {i} : pc[j] = "idle"
    /\ \E st \in AppendChunkStatus :
          /\ push_result' = [push_result EXCEPT ![i] = st]
          /\ query_status' = update(query_status, st)
          /\ ht_rows' = [ht_rows EXCEPT ![i] = IF st = OK THEN @ + n ELSE @]
          /\ merger' = [merger EXCEPT
                 !.total_rows = IF st = OK THEN @ + n ELSE @]
    /\ UNCHANGED <<schedVars, op_state, acquired, prepare_status, pc, once,
                   is_finished, sf_result, sf_last, callVars, work, add_result,
                   string_key_columns, joinerVars, hubVars, prober, otherVars>>

\* HashJoinBuildOperator::push_chunk returns what append_chunk_to_ht returns:
\* OK, with the chunk's rows added to this lane's share of the table, or the
\* collaborator's failure, with the share as it was; the driver folds the
\* Status into the query's.
push_chunk(i, n) ==
    /\ \E st \in AppendChunkStatus :
          /\ push_result' = [push_result EXCEPT ![i] = st]
          /\ query_status' = update(query_status, st)
          /\ ht_rows' = [ht_rows EXCEPT ![i] = IF st = OK THEN @ + n ELSE @]
    /\ UNCHANGED <<schedVars, op_state, acquired, prepare_status, pc, once,
                   is_finished, sf_result, sf_last, callVars, work, add_result,
                   string_key_columns, merger, joinerVars, hubVars, prober,
                   otherVars>>

\* HashJoinBuildOperator::pull_chunk: CHECK(false) is a fatal check in every
\* build type, so the call logs the message and terminates the process; the
\* return of Status::NotSupported behind it is never reached.
pull_chunk(i) ==
    /\ pull_result' = [pull_result EXCEPT ![i] = "terminated"]
    /\ phase' = "terminated"
    /\ UNCHANGED <<cancelled, distribution_mode, op_state, acquired,
                   prepare_status, ht_rows, pc, once, finishVars, callVars, work,
                   add_result, string_key_columns, merger, joinerVars, hubVars,
                   prober, push_result, statusVars, factory, serviceVars>>

\* Faulty variant: _is_finished is set at the end of the successful path only, not by
\* a scope-exit action.
Return_flag_on_success(i, st) ==
    /\ is_finished' = [is_finished EXCEPT ![i] = (@ \/ st = OK)]
    /\ sf_result' = [sf_result EXCEPT ![i] = IF @ = NONE THEN st ELSE @]
    /\ sf_last' = [sf_last EXCEPT ![i] = st]
    /\ query_status' = update(query_status, st)
    /\ pc' = [pc EXCEPT ![i] = "idle"]

\* Leaving set_finishing with status st: the DeferOp sets _is_finished, and the
\* driver folds the status into the query's overall status.
Return(i, st) ==
    /\ is_finished' = [is_finished EXCEPT ![i] = TRUE]
    /\ sf_result' = [sf_result EXCEPT ![i] = IF @ = NONE THEN st ELSE @]
    /\ sf_last' = [sf_last EXCEPT ![i] = st]
    /\ query_status' = update(query_status, st)
    /\ pc' = [pc EXCEPT ![i] = "idle"]

\* HashJoinBuildOperatorFactory::retain_string_key_columns, for a driver
\* sequence inside _string_key_columns.
retain_string_key_columns(cols, driver_sequence) ==
    [cols EXCEPT ![driver_sequence] = "keys"]

\* What indexing a vector behind its end can do: the write lands in memory
\* the vector does not own, or the process dies.
PastEndOutcomes == {"corrupt", "crash"}

\* DCHECK(_distribution_mode != BROADCAST || _driver_sequence == 0)
broadcast_has_one_builder(mode, driver_sequence) ==
    mode # "BROADCAST" \/ driver_sequence = 0

\* What a DCHECK does: nothing when its condition holds; when it does not, a
\* debug build aborts the process and a release build (NDEBUG), where the
\* check is compiled out, carries on.
dcheck(condition) == IF condition THEN {"passed"} ELSE {"aborted", "compiled out"}

\* Faulty variant: a failure of build_ht or create_runtime_filters is reported
\* as an internal error instead of being passed on as it is.
set_finishing_work_wrap_error(i) ==
    \E st1 \in BuildHtStatus :
       IF st1 # OK
       THEN /\ work' = [work EXCEPT ![i] = Bump(@, "build_ht")]
            /\ Return(i, INTERNAL_ERROR)
            /\ UNCHANGED <<string_key_columns, phase>>
       ELSE \E check \in dcheck(broadcast_has_one_builder(distribution_mode, i)) :
            IF check = "aborted"
            THEN /\ work' = [work EXCEPT ![i] = Bump(@, "build_ht")]
                 /\ phase' = "terminated"
                 /\ UNCHANGED <<finishVars, pc, string_key_columns>>
            ELSE \E st2 \in CreateRuntimeFiltersStatus :
                 IF st2 # OK
                 THEN /\ work' = [work EXCEPT
                             ![i] = Bump(Bump(@, "build_ht"), "create_rf")]
                      /\ Return(i, INTERNAL_ERROR)
                      /\ UNCHANGED <<string_key_columns, phase>>
                 ELSE /\ work' = [work EXCEPT
                             ![i] = Bump(Bump(Bump(@, "build_ht"), "create_rf"),
                                         "retain")]
                      /\ IF string_key_columns[i] # NoSlot
                         THEN /\ string_key_columns' =
                                   retain_string_key_columns(string_key_columns, i)
                              /\ pc' = [pc EXCEPT ![i] = "add"]
                              /\ UNCHANGED <<finishVars, phase>>
                         ELSE \E outcome \in PastEndOutcomes :
                              IF outcome = "crash"
                              THEN /\ phase' = "terminated"
                                   /\ UNCHANGED <<finishVars, pc,
                                                  string_key_columns>>
                              ELSE /\ pc' = [pc EXCEPT ![i] = "add"]
                                   /\ UNCHANGED <<finishVars, phase,
                                                  string_key_columns>>

\* Faulty variant: the lane's string key columns are not handed to the factory.
set_finishing_work_no_retain(i) ==
    \E st1 \in BuildHtStatus :
       IF st1 # OK
       THEN /\ work' = [work EXCEPT ![i] = Bump(@, "build_ht")]
            /\ Return(i, st1)
            /\ UNCHANGED <<string_key_columns, phase>>
       ELSE \E check \in dcheck(broadcast_has_one_builder(distribution_mode, i)) :
            IF check = "aborted"
            THEN /\ work' = [work EXCEPT ![i] = Bump(@, "build_ht")]
                 /\ phase' = "terminated"
                 /\ UNCHANGED <<finishVars, pc, string_key_columns>>
            ELSE \E st2 \in CreateRuntimeFiltersStatus :
                 IF st2 # OK
                 THEN /\ work' = [work EXCEPT
                             ![i] = Bump(Bump(@, "build_ht"), "create_rf")]
                      /\ Return(i, st2)
                      /\ UNCHANGED <<string_key_columns, phase>>
                 ELSE /\ work' = [work EXCEPT
                             ![i] = Bump(Bump(@, "build_ht"), "create_rf")]
                      /\ pc' = [pc EXCEPT ![i] = "add"]
                      /\ UNCHANGED <<finishVars, string_key_columns, phase>>

\* set_finishing after the cancellation check and up to the merger call:
\* build_ht, the DCHECK on the driver sequence, create_runtime_filters and
\* the retention of the lane's string key columns.  These steps touch only
\* this lane's state, unless the DCHECK ends the process or the lane's
\* driver sequence is behind the end of _string_key_columns: the write is
\* then undefined behaviour, which ends the process or lands outside the
\* storage.
set_finishing_work(i) ==
    \E st1 \in BuildHtStatus :
       IF st1 # OK
       THEN \* RETURN_IF_ERROR(_join_builder->build_ht(state))
            /\ work' = [work EXCEPT ![i] = Bump(@, "build_ht")]
            /\ Return(i, st1)
            /\ UNCHANGED <<string_key_columns, phase>>
       ELSE \E check \in dcheck(broadcast_has_one_builder(distribution_mode, i)) :
            IF check = "aborted"
            THEN /\ work' = [work EXCEPT ![i] = Bump(@, "build_ht")]
                 /\ phase' = "terminated"
                 /\ UNCHANGED <<finishVars, pc, string_key_columns>>
            ELSE \E st2 \in CreateRuntimeFiltersStatus :
                 IF st2 # OK
                 THEN \* RETURN_IF_ERROR(_join_builder->create_runtime_filters(state))
                      /\ work' = [work EXCEPT
                             ![i] = Bump(Bump(@, "build_ht"), "create_rf")]
                      /\ Return(i, st2)
                      /\ UNCHANGED <<string_key_columns, phase>>
                 ELSE /\ work' = [work EXCEPT
                             ![i] = Bump(Bump(Bump(@, "build_ht"), "create_rf"),
                                         "retain")]
                      /\ IF string_key_columns[i] # NoSlot
                         THEN /\ string_key_columns' =
                                   retain_string_key_columns(string_key_columns, i)
                              /\ pc' = [pc EXCEPT ![i] = "add"]
                              /\ UNCHANGED <<finishVars, phase>>
                         ELSE \E outcome \in PastEndOutcomes :
                              IF outcome = "crash"
                              THEN /\ phase' = "terminated"
                                   /\ UNCHANGED <<finishVars, pc,
                                                  string_key_columns>>
                              ELSE /\ pc' = [pc EXCEPT ![i] = "add"]
                                   /\ UNCHANGED <<finishVars, phase,
                                                  string_key_columns>>

\* Faulty variant: the cancellation flag is not polled.
set_finishing_first_no_poll(i) ==
    /\ once' = [once EXCEPT ![i] = TRUE]
    /\ set_finishing_work(i)

\* set_finishing once the once-detector has let the call through: the DeferOp
\* is armed and the cancellation flag is polled.
set_finishing_first(i) ==
    /\ once' = [once EXCEPT ![i] = TRUE]
    /\ IF cancelled
       THEN \* return Status::Cancelled("runtime state is cancelled")
            /\ Return(i, CANCELLED)
            /\ UNCHANGED <<work, string_key_columns, phase>>
       ELSE set_finishing_work(i)

\* Faulty variant: no once-detector, a repeated call runs the body again.
set_finishing_enter_unguarded(i) ==
    /\ pc[i] = "idle"
    /\ sf_calls' = [sf_calls EXCEPT ![i] = @ + 1]
    /\ set_finishing_first(i)
    /\ UNCHANGED <<cancelled, distribution_mode, op_state, acquired,
                   prepare_status, ht_rows, close_calls, add_result, merger,
                   joinerVars, hubVars, prober, callerVars>>

\* set_finishing, entry: ONCE_DETECT(_set_finishing_once) lets the first call
\* through; a repeated call does nothing and is answered with the outcome of
\* the first one.
set_finishing_enter(i) ==
    /\ pc[i] = "idle"
    /\ sf_calls' = [sf_calls EXCEPT ![i] = @ + 1]
    /\ IF once[i]
       THEN /\ sf_last' = [sf_last EXCEPT ![i] = sf_result[i]]
            /\ UNCHANGED <<once, is_finished, sf_result, query_status, pc, work,
                           string_key_columns, phase>>
       ELSE set_finishing_first(i)
    /\ UNCHANGED <<cancelled, distribution_mode, op_state, acquired,
                   prepare_status, ht_rows, close_calls, add_result, merger,
                   joinerVars, hubVars, prober, callerVars>>

\* Faulty variant: the lane is taken for the final contributor whenever the merger
\* call succeeds.
set_finishing_add_always_final(i) ==
    /\ pc[i] = "add"
    /\ work' = [work EXCEPT ![i] = Bump(@, "add")]
    /\ LET r == add_partial_filters(merger, i, ht_rows[i])
       IN /\ merger' = r.merger
          /\ add_result' = [add_result EXCEPT
                 ![i] = IF r.status # OK THEN "error"
                        ELSE IF r.value THEN "true" ELSE "false"]
          /\ IF r.status # OK
             THEN Return(i, r.status)
             ELSE /\ pc' = [pc EXCEPT ![i] = "publish"]
                  /\ UNCHANGED finishVars
    /\ UNCHANGED <<schedVars, op_state, acquired, prepare_status, ht_rows, once,
                   callVars, string_key_columns, joinerVars, hubVars, prober, callerVars>>

\* Faulty variant: the merger's error is dropped and the call carries on as a
\* non-final contributor.
set_finishing_add_ignore_error(i) ==
    /\ pc[i] = "add"
    /\ work' = [work EXCEPT ![i] = Bump(@, "add")]
    /\ LET r == add_partial_filters(merger, i, ht_rows[i])
       IN /\ merger' = r.merger
          /\ add_result' = [add_result EXCEPT
                 ![i] = IF r.status # OK THEN "error"
                        ELSE IF r.value THEN "true" ELSE "false"]
          /\ pc' = [pc EXCEPT
                 ![i] = IF r.status = OK /\ r.value THEN "publish" ELSE "enter_probe"]
          /\ UNCHANGED finishVars
    /\ UNCHANGED <<schedVars, op_state, acquired, prepare_status, ht_rows, once,
                   callVars, string_key_columns, joinerVars, hubVars, prober, callerVars>>

\* Faulty variant: the branch on the merger's answer is inverted, a non-final
\* contributor publishes and installs.
set_finishing_add_inverted(i) ==
    /\ pc[i] = "add"
    /\ work' = [work EXCEPT ![i] = Bump(@, "add")]
    /\ LET r == add_partial_filters(merger, i, ht_rows[i])
       IN /\ merger' = r.merger
          /\ add_result' = [add_result EXCEPT
                 ![i] = IF r.status # OK THEN "error"
                        ELSE IF r.value THEN "true" ELSE "false"]
          /\ IF r.status # OK
             THEN Return(i, r.status)
             ELSE /\ pc' = [pc EXCEPT
                        ![i] = IF r.value THEN "enter_probe" ELSE "publish"]
                  /\ UNCHANGED finishVars
    /\ UNCHANGED <<schedVars, op_state, acquired, prepare_status, ht_rows, once,
                   callVars, string_key_columns, joinerVars, hubVars, prober,
                   callerVars>>

\* Faulty variant: the row count handed to the merger is read before build_ht
\* has run, when it is still zero.
set_finishing_add_stale_rows(i) ==
    /\ pc[i] = "add"
    /\ work' = [work EXCEPT ![i] = Bump(@, "add")]
    /\ LET r == add_partial_filters(merger, i, 0)
       IN /\ merger' = r.merger
          /\ add_result' = [add_result EXCEPT
                 ![i] = IF r.status # OK THEN "error"
                        ELSE IF r.value THEN "true" ELSE "false"]
          /\ IF r.status # OK
             THEN Return(i, r.status)
             ELSE /\ pc' = [pc EXCEPT
                        ![i] = IF r.value THEN "publish" ELSE "enter_probe"]
                  /\ UNCHANGED finishVars
    /\ UNCHANGED <<schedVars, op_state, acquired, prepare_status, ht_rows, once,
                   callVars, string_key_columns, joinerVars, hubVars, prober,
                   callerVars>>

\* Faulty variant: the final contributor installs the collector without
\* publishing the bloom filters first.
set_finishing_add_unpublished(i) ==
    /\ pc[i] = "add"
    /\ work' = [work EXCEPT ![i] = Bump(@, "add")]
    /\ LET r == add_partial_filters(merger, i, ht_rows[i])
       IN /\ merger' = r.merger
          /\ add_result' = [add_result EXCEPT
                 ![i] = IF r.status # OK THEN "error"
                        ELSE IF r.value THEN "true" ELSE "false"]
          /\ IF r.status # OK
             THEN Return(i, r.status)
             ELSE /\ pc' = [pc EXCEPT
                        ![i] = IF r.value THEN "install" ELSE "enter_probe"]
                  /\ UNCHANGED finishVars
    /\ UNCHANGED <<schedVars, op_state, acquired, prepare_status, ht_rows, once,
                   callVars, string_key_columns, joinerVars, hubVars, prober, callerVars>>

\* status = _partial_rf_merger->add_partial_filters(merger_index, ht_row_count, ...)
\* and the branch on its result.
set_finishing_add(i) ==
    /\ pc[i] = "add"
    /\ work' = [work EXCEPT ![i] = Bump(@, "add")]
    /\ LET r == add_partial_filters(merger, i, ht_rows[i])
       IN /\ merger' = r.merger
          /\ add_result' = [add_result EXCEPT
                 ![i] = IF r.status # OK THEN "error"
                        ELSE IF r.value THEN "true" ELSE "false"]
          /\ IF r.status # OK
             THEN Return(i, r.status)
             ELSE /\ pc' = [pc EXCEPT
                        ![i] = IF r.value THEN "publish" ELSE "enter_probe"]
                  /\ UNCHANGED finishVars
    /\ UNCHANGED <<schedVars, op_state, acquired, prepare_status, ht_rows, once,
                   callVars, string_key_columns, joinerVars, hubVars, prober, callerVars>>

\* state->runtime_filter_port()->publish_runtime_filters(bloom_filters)
set_finishing_publish(i) ==
    /\ pc[i] = "publish"
    /\ work' = [work EXCEPT ![i] = Bump(@, "publish")]
    /\ published' = published + 1
    /\ pc' = [pc EXCEPT ![i] = "install"]
    /\ UNCHANGED <<schedVars, op_state, acquired, prepare_status, ht_rows, once,
                   finishVars, callVars, add_result, string_key_columns, merger,
                   joinerVars, hub, hub_set_count, prober, callerVars>>

\* runtime_filter_hub()->set_collector(_plan_node_id, collector)
set_finishing_install(i) ==
    /\ pc[i] = "install"
    /\ work' = [work EXCEPT ![i] = Bump(@, "install")]
    /\ hub' = [present |-> TRUE, total_rows |-> merger.total_rows, writer |-> i]
    /\ hub_set_count' = hub_set_count + 1
    /\ pc' = [pc EXCEPT ![i] = "enter_probe"]
    /\ UNCHANGED <<schedVars, op_state, acquired, prepare_status, ht_rows, once,
                   finishVars, callVars, add_result, string_key_columns, merger,
                   joinerVars, published, prober, callerVars>>

\* Faulty variant: a lane waits for the merger to complete before it makes the Joiner
\* probe-readable.
set_finishing_enter_probe_after_merge(i) ==
    /\ pc[i] = "enter_probe"
    /\ merger.received = merger.num_builders
    /\ work' = [work EXCEPT ![i] = Bump(@, "enter_probe")]
    /\ joiner_phase' = "probe"
    /\ Return(i, OK)
    /\ UNCHANGED <<schedVars, op_state, acquired, prepare_status, ht_rows, once,
                   callVars, add_result, string_key_columns, merger, joiner_ref,
                   joiner_closed, hubVars, prober, callerVars>>

\* _join_builder->enter_probe_phase(); return Status::OK()
set_finishing_enter_probe(i) ==
    /\ pc[i] = "enter_probe"
    /\ work' = [work EXCEPT ![i] = Bump(@, "enter_probe")]
    /\ joiner_phase' = "probe"
    /\ Return(i, OK)
    /\ UNCHANGED <<schedVars, op_state, acquired, prepare_status, ht_rows, once,
                   callVars, add_result, string_key_columns, merger, joiner_ref,
                   joiner_closed, hubVars, prober, callerVars>>

----------------------------------------------------------------------------
(* Probe side and driver *)

\* A probe operator is instantiated lazily, after its build lane has finished,
\* and uses the reference that lane reserved for it in prepare; when it has
\* finished it releases that reference (Joiner::decr_prober).
probe_close(i) ==
    /\ prober[i] = "none"
    /\ prober' = [prober EXCEPT ![i] = "closed"]
    /\ joiner_ref' = unref(joiner_ref)
    /\ joiner_closed' = (joiner_closed \/ last_reference(joiner_ref))
    /\ UNCHANGED <<schedVars, op_state, acquired, prepare_status, ht_rows, pc,
                   once, finishVars, callVars, work, add_result,
                   string_key_columns, merger, joiner_phase, hubVars,
                   callerVars>>

\* Faulty variant: the drivers start as soon as one lane is prepared.
start_drivers_any_prepared ==
    /\ phase = "prepare"
    /\ \E i \in BuildLanes : op_state[i] = "Prepared"
    /\ phase' = "run"
    /\ UNCHANGED <<cancelled, distribution_mode, op_state, acquired,
                   prepare_status, ht_rows, pc, once, finishVars, callVars, work,
                   add_result, string_key_columns, merger, joinerVars, hubVars,
                   prober, callerVars>>

\* All operators of the fragment are prepared before any driver runs.
start_drivers ==
    /\ phase = "prepare"
    /\ \A i \in BuildLanes : op_state[i] = "Prepared"
    /\ phase' = "run"
    /\ UNCHANGED <<cancelled, distribution_mode, op_state, acquired,
                   prepare_status, ht_rows, pc, once, finishVars, callVars, work,
                   add_result, string_key_columns, merger, joinerVars, hubVars,
                   prober, callerVars>>

\* A failed prepare fails the fragment: no driver runs, prepared lanes are
\* torn down.
abort_fragment ==
    /\ phase = "prepare"
    /\ \E i \in BuildLanes : op_state[i] = "PrepareFailed"
    /\ phase' = "abort"
    /\ UNCHANGED <<cancelled, distribution_mode, op_state, acquired,
                   prepare_status, ht_rows, pc, once, finishVars, callVars, work,
                   add_result, string_key_columns, merger, joinerVars, hubVars,
                   prober, callerVars>>

\* The query is cancelled (polled by set_finishing through RuntimeState).
cancel ==
    /\ phase = "run"
    /\ ~cancelled
    /\ cancelled' = TRUE
    /\ UNCHANGED <<phase, distribution_mode, op_state, acquired, prepare_status,
                   ht_rows, pc, once, finishVars, callVars, work, add_result,
                   string_key_columns, merger, joinerVars, hubVars, prober, callerVars>>

NoPrepareFailed == \A j \in BuildLanes : op_state[j] # "PrepareFailed"

\* The steps of lane i's set_finishing call that is in progress.
FinishStep(i) ==
    \/ set_finishing_add(i)
    \/ set_finishing_publish(i)
    \/ set_finishing_install(i)
    \/ set_finishing_enter_probe(i)

\* The lane's latest push_chunk returned a failure.
PushFailed(i) == push_result[i] \notin {NONE, OK}

\* The driver of a lane whose push_chunk failed cancels the query before it
\* finalizes the lane.
report_failure(i) ==
    /\ phase = "run"
    /\ PushFailed(i)
    /\ ~cancelled
    /\ cancelled' = TRUE
    /\ UNCHANGED <<phase, distribution_mode, op_state, acquired, prepare_status,
                   ht_rows, pc, once, finishVars, callVars, work, add_result,
                   string_key_columns, merger, joinerVars, hubVars, prober, callerVars>>

\* The driver's first (and, by contract, only) set_finishing call on lane i.
FirstFinish(i) ==
    /\ i \in BuildLanes
    /\ phase = "run"
    /\ op_state[i] = "Prepared"
    /\ ~once[i]
    /\ PushFailed(i) => cancelled
    /\ set_finishing_enter(i)

LaneFinish(i) ==
    \/ (i \in BuildLanes /\ report_failure(i))
    \/ FirstFinish(i)
    \/ (i \in BuildLanes /\ phase # "terminated" /\ FinishStep(i))

Next ==
    \/ \E i \in BuildLanes :
          /\ phase = "prepare"
          /\ op_state[i] = "Created"
          /\ NoPrepareFailed
          /\ prepare(i)
    \/ start_drivers
    \/ abort_fragment
    \/ cancel
    \/ \E i \in BuildLanes, n \in ChunkSizes :
          /\ phase = "run"
          /\ op_state[i] = "Prepared"
          /\ ~once[i]
          /\ ht_rows[i] + n <= MaxRows
          /\ push_result[i] \in {NONE, OK}
          /\ push_chunk(i, n)
    \/ \E i \in Lanes : LaneFinish(i)
    \/ \E i \in BuildLanes :
          /\ op_state[i] = "Prepared"
          /\ pc[i] = "idle"
          /\ \/ phase = "run" /\ is_finished[i]
             \/ phase = "abort"
          /\ close(i)
    \/ \E i \in BuildLanes :
          /\ phase = "run"
          /\ acquired[i] = 2
          /\ is_finished[i]
          /\ probe_close(i)

Spec == Init /\ [][Next]_vars

\* The driver schedules every ready lane: a lane that may call set_finishing,
\* or is inside it, eventually takes its next step.
SpecFair == Spec /\ \A i \in Lanes : WF_vars(LaneFinish(i))

----------------------------------------------------------------------------
(* Redundant calls: a driver that repeats set_finishing or close.            *)

RECURSIVE SumOver(_, _)
SumOver(f, S) ==
    IF S = {} THEN 0
    ELSE LET x == CHOOSE y \in S : TRUE IN f[x] + SumOver(f, S \ {x})

Extra(n) == IF n > 1 THEN n - 1 ELSE 0

\* Number of redundant calls made so far.
Redundant ==
    SumOver([i \in Lanes |->
                Extra(sf_calls[i])
                + (IF prepare_status[i] = OK THEN Extra(close_calls[i])
                   ELSE close_calls[i])], Lanes)

\* A second set_finishing call on an operator whose first call has returned.
Refinish(i) ==
    /\ i \in BuildLanes
    /\ Redundant < MaxRedundant
    /\ phase = "run"
    /\ op_state[i] = "Prepared"
    /\ once[i]
    /\ set_finishing_enter(i)

\* A second close call on an operator that is already closed.
Reclose(i) ==
    /\ i \in BuildLanes
    /\ Redundant < MaxRedundant
    /\ op_state[i] = "Closed"
    /\ close(i)

NextRefinish == Next \/ \E i \in Lanes : Refinish(i)

SpecRefinish == Init /\ [][NextRefinish]_vars

NextReclose == Next \/ \E i \in Lanes : Reclose(i)

SpecReclose == Init /\ [][NextReclose]_vars

----------------------------------------------------------------------------
(* Teardown after a failed prepare: the driver closes the operator whose     *)
(* prepare returned an error.                                                *)

\* close on a lane whose prepare failed, once the fragment is being aborted.
FailClose(i) ==
    /\ i \in BuildLanes
    /\ phase = "abort"
    /\ op_state[i] = "PrepareFailed"
    /\ close(i)

NextFailClose == Next \/ \E i \in Lanes : FailClose(i)

SpecFailClose == Init /\ [][NextFailClose]_vars

----------------------------------------------------------------------------
(* A miscounted builder set: the drivers start although some lane of a       *)
(* partitioned join was never prepared, so the merger expects fewer          *)
(* contributions than there are lanes calling set_finishing.                 *)

start_drivers_short ==
    /\ phase = "prepare"
    /\ NoPrepareFailed
    /\ \E i \in BuildLanes : op_state[i] = "Prepared"
    /\ \E i \in BuildLanes : op_state[i] = "Created"
    /\ phase' = "run"
    /\ UNCHANGED <<cancelled, distribution_mode, op_state, acquired,
                   prepare_status, ht_rows, pc, once, finishVars, callVars, work,
                   add_result, string_key_columns, merger, joinerVars, hubVars,
                   prober, callerVars>>

\* set_finishing on a lane that never registered with the merger.
UnregisteredFinish(i) ==
    /\ i \in BuildLanes
    /\ phase = "run"
    /\ op_state[i] = "Created"
    /\ ~once[i]
    /\ set_finishing_enter(i)

NextMiscount ==
    \/ Next
    \/ start_drivers_short
    \/ \E i \in Lanes : UnregisteredFinish(i)

SpecMiscount == Init /\ [][NextMiscount]_vars

----------------------------------------------------------------------------
(* A pipeline builder that asks the factory for a build operator on a driver *)
(* sequence it did not plan: create makes the operator whatever the          *)
(* distribution mode and the driver sequence.                                *)

\* HashJoinBuildOperatorFactory::create(dop, i) for a driver sequence that
\* has no build operator yet.
CreateOperator(i) ==
    /\ phase = "prepare"
    /\ op_state[i] = "NoOperator"
    /\ op_state' = [op_state EXCEPT ![i] = "Created"]
    /\ UNCHANGED <<schedVars, acquired, prepare_status, ht_rows, pc, once,
                   finishVars, callVars, work, add_result, string_key_columns,
                   merger, joinerVars, hubVars, prober, callerVars>>

NextUnplanned == Next \/ \E i \in Lanes : CreateOperator(i)

SpecUnplanned == Init /\ [][NextUnplanned]_vars

----------------------------------------------------------------------------
(* A caller that pulls from a build operator.                                *)

Pull(i) ==
    /\ i \in BuildLanes
    /\ phase # "terminated"
    /\ pull_chunk(i)

NextPull == Next \/ \E i \in Lanes : Pull(i)

SpecPull == Init /\ [][NextPull]_vars

----------------------------------------------------------------------------
(* A caller that constructs, copies, moves, folds, inspects and destroys     *)
(* Status objects, and runs foreign code inside RETURN_IF_EXCEPTION.         *)

joinVars == <<phase, cancelled, distribution_mode, op_state, acquired,
              prepare_status, ht_rows, pc, once, is_finished, sf_result, sf_last,
              sf_calls, close_calls, work, add_result, string_key_columns,
              merger, joiner_ref, joiner_closed, joiner_phase, hub,
              hub_set_count, published, prober, query_status, pull_result,
              push_result>>

\* The source of a copy or of an update that did not move from it.
handed_over(h) == [h EXCEPT !.handed = TRUE, !.rearmed = FALSE]

\* The receiver of an update that kept its failure.
kept_failure(h) == [h EXCEPT !.kept = TRUE, !.rearmed = FALSE]

\* The source of a move.
moved_away(h) == [h EXCEPT !.handed = TRUE, !.moved = TRUE, !.rearmed = FALSE,
                           !.first = moved_from_state]

\* The object of a predicate, code() or permit_unchecked_error call.
inspected_now(h) == [h EXCEPT !.inspected = TRUE, !.rearmed = FALSE]

\* Status s; or Status s(code, msg);
StatusConstruct(n) ==
    /\ ~status[n].live
    /\ \E st \in {Nullptr} \cup ErrorStates :
          /\ status' = [status EXCEPT ![n] = construct(st)]
          /\ history' = [history EXCEPT ![n] = fresh(st)]
    /\ UNCHANGED <<joinVars, factory, serviceVars, report, boundary>>

\* Status n(m);
StatusCopyConstruct(n, m) ==
    /\ ~status[n].live /\ status[m].live
    /\ LET r == copy_ctor(status[m])
       IN status' = [status EXCEPT ![n] = r.self, ![m] = r.s]
    /\ history' = [history EXCEPT ![n] = fresh(status[m].state),
                                  ![m] = handed_over(@)]
    /\ UNCHANGED <<joinVars, factory, serviceVars, report, boundary>>

\* Status n(std::move(m));
StatusMoveConstruct(n, m) ==
    /\ ~status[n].live /\ status[m].live
    /\ LET r == move_ctor(status[m])
       IN status' = [status EXCEPT ![n] = r.self, ![m] = r.s]
    /\ history' = [history EXCEPT ![n] = fresh(status[m].state),
                                  ![m] = moved_away(@)]
    /\ UNCHANGED <<joinVars, factory, serviceVars, report, boundary>>

\* n = m;
StatusCopyAssign(n, m) ==
    /\ n # m /\ status[n].live /\ status[m].live
    /\ LET r == copy_assign(status[n], status[m])
       IN status' = [status EXCEPT ![n] = r.self, ![m] = r.s]
    /\ history' = [history EXCEPT ![n] = fresh(status[m].state),
                                  ![m] = handed_over(@)]
    /\ UNCHANGED <<joinVars, factory, serviceVars, report, boundary>>

\* n = std::move(m);
StatusMoveAssign(n, m) ==
    /\ n # m /\ status[n].live /\ status[m].live
    /\ LET r == move_assign(status[n], status[m])
       IN status' = [status EXCEPT ![n] = r.self, ![m] = r.s]
    /\ history' = [history EXCEPT ![n] = fresh(status[m].state),
                                  ![m] = moved_away(@)]
    /\ UNCHANGED <<joinVars, factory, serviceVars, report, boundary>>

\* n.ok(); or n.code();
StatusQuery(n) ==
    /\ status[n].live
    /\ status' = [status EXCEPT ![n] = mark_checked(@)]
    /\ history' = [history EXCEPT ![n] = inspected_now(@)]
    /\ UNCHANGED <<joinVars, factory, serviceVars, report, boundary>>

\* n.permit_unchecked_error();
StatusPermit(n) ==
    /\ status[n].live
    /\ status' = [status EXCEPT ![n] = mark_checked(@)]
    /\ history' = [history EXCEPT ![n] = inspected_now(@)]
    /\ UNCHANGED <<joinVars, factory, serviceVars, report, boundary>>

\* n.must_check();
StatusMustCheck(n) ==
    /\ status[n].live
    /\ status' = [status EXCEPT ![n] = must_check(@)]
    /\ history' = [history EXCEPT ![n].rearmed = TRUE]
    /\ UNCHANGED <<joinVars, factory, serviceVars, report, boundary>>

\* n.update(m);
StatusUpdateCopy(n, m) ==
    /\ n # m /\ status[n].live /\ status[m].live
    /\ LET r == update_copy(status[n], status[m])
       IN status' = [status EXCEPT ![n] = r.self, ![m] = r.s]
    /\ history' = [history EXCEPT
           ![n] = IF @.first = Nullptr THEN fresh(status[m].state)
                  ELSE kept_failure(@),
           ![m] = handed_over(@)]
    /\ UNCHANGED <<joinVars, factory, serviceVars, report, boundary>>

\* n.update(std::move(m));
StatusUpdateMove(n, m) ==
    /\ n # m /\ status[n].live /\ status[m].live
    /\ LET r == update_move(status[n], status[m])
       IN status' = [status EXCEPT ![n] = r.self, ![m] = r.s]
    /\ history' = [history EXCEPT
           ![n] = IF @.first = Nullptr THEN fresh(status[m].state)
                  ELSE kept_failure(@),
           ![m] = IF history[n].first = Nullptr THEN moved_away(@)
                  ELSE handed_over(@)]
    /\ UNCHANGED <<joinVars, factory, serviceVars, report, boundary>>

\* ~Status: an object that is not checked is reported on stderr; the abort is
\* commented out, the program carries on.
StatusDestroy(n) ==
    /\ status[n].live
    /\ report' = IF ~status[n].checked THEN "unchecked" ELSE "silent"
    /\ status' = [status EXCEPT ![n] = NoStatus]
    /\ history' = [history EXCEPT ![n] = NoHistory]
    /\ UNCHANGED <<joinVars, factory, serviceVars, boundary>>

\* What the statement inside RETURN_IF_EXCEPTION does.
Thrown == {"nothing", "std::exception", "other type"}

\* RETURN_IF_EXCEPTION(stmt): catch (const std::exception& e) returns
\* Status::InternalError(e.what()); there is no other handler.
return_if_exception(thrown) ==
    CASE thrown = "nothing" -> "continued"
      [] thrown = "std::exception" -> INTERNAL_ERROR
      [] OTHER -> "propagated"

ReturnIfException ==
    /\ \E thrown \in Thrown : boundary' = return_if_exception(thrown)
    /\ UNCHANGED <<joinVars, factory, serviceVars, status, history, report>>

NextStatus ==
    \/ \E n \in StatusNames : StatusConstruct(n)
    \/ \E n, m \in StatusNames : StatusCopyConstruct(n, m)
    \/ \E n, m \in StatusNames : StatusMoveConstruct(n, m)
    \/ \E n, m \in StatusNames : StatusCopyAssign(n, m)
    \/ \E n, m \in StatusNames : StatusMoveAssign(n, m)
    \/ \E n \in StatusNames : StatusQuery(n)
    \/ \E n \in StatusNames : StatusPermit(n)
    \/ \E n \in StatusNames : StatusMustCheck(n)
    \/ \E n, m \in StatusNames : StatusUpdateCopy(n, m)
    \/ \E n, m \in StatusNames : StatusUpdateMove(n, m)
    \/ \E n \in StatusNames : StatusDestroy(n)
    \/ ReturnIfException

SpecStatus == Init /\ [][NextStatus]_vars

----------------------------------------------------------------------------
(* The factory creates an operator on every create call; each operator       *)
(* retains its key columns in the factory's storage during set_finishing.    *)

\* HashJoinBuildOperatorFactory::create: size of _string_key_columns after
\* the call.
create(size, dop, driver_sequence) ==
    IF size = 0 THEN dop ELSE size

\* Operators of the factory whose write to slot q of _string_key_columns is
\* in progress.
Writers(f, q) ==
    {k \in DOMAIN f.ops : /\ f.ops[k].pc \in {"writing", "racing"}
                          /\ f.ops[k].driver_sequence = q}

\* What unsynchronised move assignments to one slot can do: the slot holds
\* the columns of one writer, or a mix of the writers' pointers, or the
\* process dies in the assignments.
RacingWriteOutcomes == {"keys", "torn", "crash"}

\* What a move assignment to a torn slot can do: it releases what the slot
\* points to and takes the new columns, or the release ends the process.
TornOverwriteOutcomes == {"keys", "crash"}

\* The process was ended by a write behind the end or by racing writes.
Crashed(f) == f.past_end = "crash" \/ f.race_crash

\* create(dop, driver_sequence): sizes the storage if it is empty and makes
\* an operator with the driver sequence it was given.
FactoryCreate(dop, driver_sequence) ==
    /\ ~Crashed(factory)
    /\ Len(factory.ops) < MaxOperators
    /\ LET size == create(factory.size, dop, driver_sequence)
       IN factory' = [factory EXCEPT
              !.size = size,
              !.resizes = IF size # factory.size THEN @ + 1 ELSE @,
              !.first_dop = IF @ = 0 THEN dop ELSE @,
              !.ops = Append(@, [driver_sequence |-> driver_sequence,
                                 pc |-> "created"])]
    /\ UNCHANGED <<joinVars, statusVars, serviceVars>>

\* set_finishing of the k-th operator reaches retain_string_key_columns:
\* operator[] is applied to _string_key_columns and the write begins.  A
\* write that begins while another write to the slot is in progress races
\* with it.
FactoryRetainBegin(k) ==
    /\ ~Crashed(factory)
    /\ k \in DOMAIN factory.ops
    /\ factory.ops[k].pc = "created"
    /\ LET q == factory.ops[k].driver_sequence
           overlapping == Writers(factory, q)
       IN IF ~(q < factory.size)
          THEN \E outcome \in PastEndOutcomes :
                  factory' = [factory EXCEPT !.ops[k].pc = "writing",
                                             !.past_end = outcome]
          ELSE IF overlapping = {}
          THEN factory' = [factory EXCEPT !.ops[k].pc = "writing"]
          ELSE factory' = [factory EXCEPT
                   !.ops = [l \in DOMAIN @ |->
                               IF l \in overlapping \cup {k}
                               THEN [@[l] EXCEPT !.pc = "racing"]
                               ELSE @[l]]]
    /\ UNCHANGED <<joinVars, statusVars, serviceVars>>

\* The move assignment of the k-th operator is complete.
FactoryRetainEnd(k) ==
    /\ ~Crashed(factory)
    /\ k \in DOMAIN factory.ops
    /\ factory.ops[k].pc \in {"writing", "racing"}
    /\ LET q == factory.ops[k].driver_sequence
       IN IF ~(q < factory.size)
          THEN factory' = [factory EXCEPT !.ops[k].pc = "retained"]
          ELSE IF factory.ops[k].pc = "racing"
          THEN \E outcome \in RacingWriteOutcomes :
                  IF outcome = "crash"
                  THEN factory' = [factory EXCEPT !.race_crash = TRUE]
                  ELSE factory' = [factory EXCEPT !.ops[k].pc = "retained",
                                                  !.slots[q] = outcome]
          ELSE IF factory.slots[q] = "torn"
          THEN \E outcome \in TornOverwriteOutcomes :
                  IF outcome = "crash"
                  THEN factory' = [factory EXCEPT !.race_crash = TRUE]
                  ELSE factory' = [factory EXCEPT !.ops[k].pc = "retained",
                                                  !.slots[q] = outcome]
          ELSE factory' = [factory EXCEPT
                   !.ops[k].pc = "retained",
                   !.slots = retain_string_key_columns(@, q)]
    /\ UNCHANGED <<joinVars, statusVars, serviceVars>>

NextFactory ==
    \/ \E dop \in 1..MaxDop, q \in DriverSequences : FactoryCreate(dop, q)
    \/ \E k \in 1..MaxOperators : FactoryRetainBegin(k)
    \/ \E k \in 1..MaxOperators : FactoryRetainEnd(k)

SpecFactory == Init /\ [][NextFactory]_vars

----------------------------------------------------------------------------
(* spill::DirManager: init registers the configured spill directories,       *)
(* acquire_writable_dir hands them out round-robin.                          *)

\* What init finds out about one configured path: usable; listed in
\* storage_root_path as well; failing the read-write test; or failing in
\* FileSystem::CreateSharedFromString / create_dir_if_missing / iterate_dir.
PathKinds == {"good", "clash", "broken", "fs_error"}

\* Parsed spill_local_storage_dir settings: up to MaxDirs paths, named by
\* their position.
SpillConfs ==
    UNION {[1..n -> PathKinds] : n \in 0..MaxDirs}

named(conf) == [k \in DOMAIN conf |-> [name |-> k, kind |-> conf[k]]]

\* DirManager::init, first loop: a path of storage_root_path is refused, a
\* path failing the read-write test is erased when ignore_broken_disk is set
\* and refused otherwise.
RECURSIVE check_paths(_, _)
check_paths(paths, ignore_broken_disk) ==
    IF paths = <<>> THEN [status |-> OK, paths |-> <<>>]
    ELSE LET path == Head(paths)
         IN IF path.kind = "clash"
            THEN [status |-> INVALID_ARGUMENT, paths |-> <<>>]
            ELSE IF path.kind = "broken"
            THEN IF ignore_broken_disk
                 THEN check_paths(Tail(paths), ignore_broken_disk)
                 ELSE [status |-> IO_ERROR, paths |-> <<>>]
            ELSE LET rest == check_paths(Tail(paths), ignore_broken_disk)
                 IN [status |-> rest.status, paths |-> <<path>> \o rest.paths]

\* DirManager::init, second loop: each path is opened, created, cleaned and
\* appended to _dirs; the first failure returns with what was appended so far.
RECURSIVE register_dirs(_, _)
register_dirs(paths, dirs) ==
    IF paths = <<>> THEN [status |-> OK, dirs |-> dirs]
    ELSE IF Head(paths).kind = "fs_error"
    THEN [status |-> IO_ERROR, dirs |-> dirs]
    ELSE register_dirs(Tail(paths), Append(dirs, Head(paths).name))

\* DirManager::init
init(dirs, spill_dirs, parse_ok, ignore_broken_disk) ==
    IF ~parse_ok THEN [status |-> INVALID_ARGUMENT, dirs |-> dirs]
    ELSE IF spill_dirs = <<>> THEN [status |-> INVALID_ARGUMENT, dirs |-> dirs]
    ELSE LET checked == check_paths(named(spill_dirs), ignore_broken_disk)
         IN IF checked.status # OK THEN [status |-> checked.status, dirs |-> dirs]
            ELSE IF checked.paths = <<>>
            THEN [status |-> INVALID_ARGUMENT, dirs |-> dirs]
            ELSE register_dirs(checked.paths, dirs)

DirInit ==
    /\ dir_manager.init_status = NONE
    /\ \E spill_dirs \in SpillConfs, parse_ok \in BOOLEAN,
          ignore_broken_disk \in BOOLEAN :
          LET r == init(dir_manager.dirs, spill_dirs, parse_ok, ignore_broken_disk)
          IN dir_manager' = [dir_manager EXCEPT !.init_status = r.status,
                                                !.dirs = r.dirs]
    /\ UNCHANGED <<joinVars, statusVars, factory, udf>>

\* Faulty variant: the counter is incremented before it is read.
acquire_index_preincrement(idx, size) == (idx + 1) % size

\* size_t idx = _idx++ % _dirs.size(): the index for the counter value read.
acquire_index(idx, size) == idx % size

\* acquire_writable_dir, first half: the counter is read and incremented in
\* one step and the index computed.  Callers acquire only after init
\* succeeded.
AcquireFetch(c) ==
    /\ dir_manager.init_status = OK
    /\ dir_manager.pc[c] = "idle"
    /\ dir_manager.calls < MaxAcquire
    /\ dir_manager' = [dir_manager EXCEPT
           !.pc[c] = "fetched",
           !.ticket[c] = dir_manager.calls,
           !.calls = @ + 1,
           !.slot[c] = acquire_index(dir_manager.idx, Len(dir_manager.dirs)),
           !.idx = @ + 1,
           !.result[c] = 0]
    /\ UNCHANGED <<joinVars, statusVars, factory, udf>>

\* acquire_writable_dir, second half: return _dirs[idx].get().  An index
\* outside the list reads past its end.
AcquireReturn(c) ==
    /\ dir_manager.pc[c] = "fetched"
    /\ dir_manager' = [dir_manager EXCEPT
           !.pc[c] = "idle",
           !.result[c] = IF dir_manager.slot[c] < Len(dir_manager.dirs)
                         THEN dir_manager.dirs[dir_manager.slot[c] + 1]
                         ELSE -1]
    /\ UNCHANGED <<joinVars, statusVars, factory, udf>>

NextDir ==
    \/ DirInit
    \/ \E c \in Callers : AcquireFetch(c)
    \/ \E c \in Callers : AcquireReturn(c)

SpecDir == Init /\ [][NextDir]_vars

----------------------------------------------------------------------------
(* call_function_in_pthread: func runs inline on a pthread, or as a task of  *)
(* the UDF call pool when the caller is a bthread.                           *)

\* What func returns.
FuncResults == {OK, INTERNAL_ERROR}

\* Memory trackers a pool thread can be left with by earlier work.
IdleTrackers == {"process", "query pool"}

\* A PromiseStatus: how often set_value was called on it, and with what.
NoValue == [sets |-> 0, value |-> NONE]

set_value(promise, st) == [sets |-> promise.sets + 1, value |-> st]

\* call_function_in_pthread(state, func): with bthread_self() non-zero the
\* task is offered to udf_call_pool, otherwise func runs on the calling
\* thread and the promise is set before the function returns.
call_function_in_pthread(thread, result) ==
    /\ Len(udf.promise) < MaxCalls
    /\ IF thread = "bthread"
       THEN udf' = [udf EXCEPT
                !.promise = Append(@, NoValue),
                !.func = Append(@, result),
                !.queue = Append(@, Len(udf.promise) + 1)]
       ELSE udf' = [udf EXCEPT
                !.promise = Append(@, set_value(NoValue, result)),
                !.func = Append(@, result)]
    /\ UNCHANGED <<joinVars, statusVars, factory, dir_manager>>

\* Other work of the pool leaves the idle worker under some tracker.
WorkerOtherWork ==
    /\ udf.worker.pc = "idle"
    /\ \E t \in IdleTrackers :
          /\ t # udf.worker.tracker
          /\ udf' = [udf EXCEPT !.worker.tracker = t]
    /\ UNCHANGED <<joinVars, statusVars, factory, dir_manager>>

\* The worker takes the task: Status st; prev_tracker =
\* tls_thread_status.set_mem_tracker(state->instance_mem_tracker()).
WorkerEnter ==
    /\ udf.worker.pc = "idle"
    /\ udf.queue # <<>>
    /\ udf' = [udf EXCEPT
           !.queue = Tail(@),
           !.worker = [pc |-> "entered", task |-> Head(udf.queue), st |-> OK,
                       tracker |-> "instance",
                       prev_tracker |-> udf.worker.tracker,
                       before |-> udf.worker.tracker]]
    /\ UNCHANGED <<joinVars, statusVars, factory, dir_manager>>

\* st = func()
WorkerCall ==
    /\ udf.worker.pc = "entered"
    /\ udf' = [udf EXCEPT !.worker.pc = "called",
                          !.worker.st = udf.func[udf.worker.task]]
    /\ UNCHANGED <<joinVars, statusVars, factory, dir_manager>>

\* Faulty variant: the block is left without the DeferOp.
WorkerLeaveScopeNoDefer ==
    /\ udf.worker.pc = "called"
    /\ udf' = [udf EXCEPT !.worker.pc = "left"]
    /\ UNCHANGED <<joinVars, statusVars, factory, dir_manager>>

\* End of the inner block: DeferOp runs
\* tls_thread_status.set_mem_tracker(prev_tracker).
WorkerLeaveScope ==
    /\ udf.worker.pc = "called"
    /\ udf' = [udf EXCEPT !.worker.pc = "left",
                          !.worker.tracker = udf.worker.prev_tracker]
    /\ UNCHANGED <<joinVars, statusVars, factory, dir_manager>>

\* promise->set_value(st); the task is over.
WorkerSetValue ==
    /\ udf.worker.pc = "left"
    /\ udf' = [udf EXCEPT
           !.promise[udf.worker.task] = set_value(@, udf.worker.st),
           !.worker.pc = "idle"]
    /\ UNCHANGED <<joinVars, statusVars, factory, dir_manager>>

Worker == WorkerEnter \/ WorkerCall \/ WorkerLeaveScope \/ WorkerSetValue

NextUdf ==
    \/ \E thread \in Threads, result \in FuncResults :
          call_function_in_pthread(thread, result)
    \/ WorkerOtherWork
    \/ WorkerEnter
    \/ WorkerCall
    \/ WorkerLeaveScope
    \/ WorkerSetValue

\* The pool's worker thread keeps running the tasks it was offered.
SpecUdf == Init /\ [][NextUdf]_vars /\ WF_vars(Worker)

----------------------------------------------------------------------------
(* Properties *)

FinalContributors == {i \in BuildLanes : add_result[i] = "true"}

AllContributed == \A i \in BuildLanes : add_result[i] # NONE

\* C1: with every build lane registered, at most one add_partial_filters call
\* returns true, and once every lane has made its call exactly one call has
\* returned true and all the others false.
C1_ExactlyOneFinalContributor ==
    /\ Cardinality(FinalContributors) <= 1
    /\ AllContributed =>
          /\ Cardinality(FinalContributors) = 1
          /\ \A i \in BuildLanes \ FinalContributors : add_result[i] = "false"

\* C1 witness: two lanes of a partitioned join have both contributed.
C1_Witness ==
    /\ distribution_mode = "PARTITIONED"
    /\ AllContributed
    /\ merger.num_builders = NumLanes

\* C2: set_collector is called at most once for the plan node, and only by
\* the lane whose add_partial_filters call returned true.
C2_SingleHubWriter ==
    /\ hub_set_count <= 1
    /\ \A i \in BuildLanes : work[i].install > 0 => add_result[i] = "true"
    /\ hub.present => (hub.writer \in BuildLanes /\ add_result[hub.writer] = "true")

\* C2 witness: the collector is installed while another lane's call returned
\* false.
C2_Witness ==
    /\ hub.present
    /\ \E j \in BuildLanes : j # hub.writer /\ add_result[j] = "false"

PreparedLanes == {i \in BuildLanes : prepare_status[i] = OK}

BuilderRefHeld == {i \in BuildLanes : acquired[i] > 0 /\ op_state[i] # "Closed"}

ProberRefHeld == {i \in BuildLanes : acquired[i] > 0 /\ prober[i] # "closed"}

\* C3 as stated: once some lane is prepared, the reference count is zero if
\* and only if every prepared build lane and every instantiated probe lane
\* has called close.
C3_Original ==
    PreparedLanes # {} =>
        ((joiner_ref = 0) <=> (\A i \in PreparedLanes : op_state[i] = "Closed"))

\* C3 amended: the reference count is the number of references taken in
\* prepare and not yet released (the builder's by close, the reserved one by
\* the prober); it is zero exactly when all of them have been released, and
\* only then is the Joiner destroyed.
C3_RefCountAccounting ==
    /\ joiner_ref = Cardinality(BuilderRefHeld) + Cardinality(ProberRefHeld)
    /\ (\E i \in BuildLanes : acquired[i] > 0) =>
          ((joiner_ref = 0) <=> (BuilderRefHeld = {} /\ ProberRefHeld = {}))
    /\ joiner_closed <=> (joiner_ref = 0 /\ \E i \in BuildLanes : acquired[i] > 0)

\* C3 witness: all lanes of a partitioned join were prepared, every builder
\* has closed, every prober has released its reference, the Joiner is gone.
C3_Witness ==
    /\ distribution_mode = "PARTITIONED"
    /\ \A i \in Lanes : op_state[i] = "Closed" /\ prober[i] = "closed"
    /\ joiner_closed

\* C4: a repeated set_finishing call does no build or filter work, makes no
\* second contribution and no second Hub installation, and returns the
\* outcome of the first call.
C4_SecondFinishIsNoOp ==
    \A i \in BuildLanes :
        sf_calls[i] >= 2 =>
            /\ pc[i] = "idle"
            /\ sf_last[i] = sf_result[i]
            /\ work[i].build_ht <= 1 /\ work[i].create_rf <= 1
            /\ work[i].retain <= 1 /\ work[i].add <= 1
            /\ work[i].publish <= 1 /\ work[i].install <= 1
            /\ work[i].enter_probe <= 1
            /\ hub_set_count <= 1
            /\ merger.received <= merger.num_builders

\* C4 witness: set_finishing was repeated on the lane that installed the
\* collector, and on a cancelled query.
C4_Witness ==
    \E i \in BuildLanes :
        /\ sf_calls[i] >= 2
        /\ sf_result[i] = OK
        /\ hub.present /\ hub.writer = i
        /\ cancelled

\* C5: whenever set_finishing has returned, with whatever status, the
\* operator's finished flag is set; and every lane whose set_finishing is
\* invoked becomes finished.
C5_FinishedOnEveryReturn ==
    /\ [](\A i \in BuildLanes :
             (sf_result[i] # NONE \/ (once[i] /\ pc[i] = "idle")) => is_finished[i])
    /\ \A i \in Lanes : (once[i] ~> is_finished[i])

\* C5 witness: one lane returned a cancellation and another a failure of a
\* build step, and both are finished.
C5_Witness ==
    \E i, j \in BuildLanes :
        /\ sf_result[i] = CANCELLED /\ is_finished[i]
        /\ sf_result[j] \in {MEM_LIMIT_EXCEEDED, CAPACITY_LIMIT_EXCEED}
        /\ is_finished[j]

CancelledCall(i) == cancelled /\ ~once[i] /\ once'[i]

\* C6: a set_finishing call made on a cancelled query returns a cancellation
\* failure and does no work: no build_ht, no runtime filter, no retained key
\* column, no merger contribution, no publication, no Hub installation and no
\* probe-phase transition.
C6_CancelledFinishDoesNoWork ==
    /\ [][\A i \in BuildLanes :
            CancelledCall(i) =>
               /\ sf_result'[i] = CANCELLED
               /\ pc'[i] = "idle"
               /\ UNCHANGED <<work, string_key_columns, merger, add_result, hub,
                              hub_set_count, published, joiner_phase, ht_rows>>]_vars
    /\ [](\A i \in BuildLanes :
             sf_result[i] = CANCELLED =>
                /\ work[i] = NoWork
                /\ string_key_columns[i] = "empty"
                /\ merger.slots[i] = -1
                /\ add_result[i] = NONE
                /\ hub.writer # i)

\* C6 witness: a lane returned a cancellation while a sibling had already
\* contributed to the merger.
C6_Witness ==
    \E i, j \in BuildLanes :
        /\ sf_result[i] = CANCELLED
        /\ add_result[j] = "false"

CancelledBeforeFinish ==
    phase = "run" /\ cancelled /\ \E i \in BuildLanes : ~once[i]

AllFinishedQueryFailed ==
    /\ \A i \in BuildLanes : is_finished[i]
    /\ query_status # OK

\* C7: a lane that calls set_finishing after the query was cancelled makes no
\* merger contribution, and the short count hangs nothing: every lane becomes
\* finished and the query's overall status is a failure.
C7_NoHangOnShortCount ==
    /\ [](\A i \in BuildLanes : sf_result[i] = CANCELLED => merger.slots[i] = -1)
    /\ CancelledBeforeFinish ~> AllFinishedQueryFailed

\* C7 witness: every lane is finished, one by a cancellation, and the merger
\* has received fewer contributions than it expects.
C7_Witness ==
    /\ \A i \in BuildLanes : is_finished[i]
    /\ \E i \in BuildLanes : sf_result[i] = CANCELLED
    /\ \E j \in BuildLanes : add_result[j] = "false"
    /\ merger.received < merger.num_builders
    /\ query_status = CANCELLED

\* C8 as stated: the Joiner is probe-readable only when every build lane of
\* the node has finished.
C8_Original ==
    joiner_phase = "probe" => \A i \in BuildLanes : is_finished[i]

\* C9 as stated: a second close on the same build operator leaves the
\* Joiner's reference count as the first close left it.
C9_SecondCloseNoEffect ==
    [][\A i \in BuildLanes :
          (close_calls[i] >= 1 /\ close_calls'[i] = close_calls[i] + 1) =>
              (joiner_ref' = joiner_ref /\ joiner_closed' = joiner_closed)]_vars

\* C10 as stated: a prepare that fails leaves the Joiner's reference count
\* and the merger's expected-builder count as they were before the call.
C10_FailedPrepareNoPartialIncrement ==
    [][\A i \in BuildLanes :
          (op_state[i] = "Created" /\ op_state'[i] = "PrepareFailed") =>
              (joiner_ref' = joiner_ref
               /\ merger'.num_builders = merger.num_builders)]_vars

\* References of the Joiner that lanes other than i still hold.
HeldByOthers(i) ==
    Cardinality(BuilderRefHeld \ {i}) + Cardinality(ProberRefHeld \ {i})

\* C11 as stated: a close that follows a failed prepare releases no more
\* references than the lane acquired, never takes the Joiner's reference
\* count below the number of references other lanes still hold, and never
\* destroys the Joiner while another lane holds a reference.
C11_CloseAfterFailedPrepareSafe ==
    [][\A i \in BuildLanes :
          (op_state[i] = "PrepareFailed" /\ op_state'[i] = "Closed") =>
              /\ joiner_ref - joiner_ref' <= acquired[i]
              /\ joiner_ref' >= HeldByOthers(i)
              /\ (HeldByOthers(i) > 0 => ~joiner_closed')]_vars

\* The merger has already received every contribution it expects.
MergerCompleted == merger.received >= merger.num_builders

\* C13: an add_partial_filters call made after the merger has completed
\* returns an internal error, leaves the merger's contributions and row count
\* as they were, and set_finishing returns that error without publishing,
\* installing a collector or entering the probe phase.
C13_LateContributionIsInternalError ==
    /\ [][\A i \in Lanes :
            (pc[i] = "add" /\ pc'[i] # "add" /\ MergerCompleted) =>
               /\ add_result'[i] = "error"
               /\ sf_last'[i] = INTERNAL_ERROR
               /\ pc'[i] = "idle"
               /\ merger' = merger
               /\ UNCHANGED <<hub, hub_set_count, published, joiner_phase>>]_vars
    /\ [](\A i \in Lanes :
             add_result[i] = "error" =>
                /\ sf_result[i] = INTERNAL_ERROR
                /\ work[i].publish = 0 /\ work[i].install = 0
                /\ work[i].enter_probe = 0
                /\ merger.slots[i] = -1
                /\ hub.writer # i)

\* C13 witness: the merger completed and its collector was installed, then a
\* further lane contributed and was answered with the internal error.
C13_Witness ==
    /\ hub.present
    /\ MergerCompleted
    /\ \E i \in Lanes : add_result[i] = "error" /\ ht_rows[i] > 0 /\ is_finished[i]

\* C14 as stated: every pull_chunk call on a build operator, in whatever
\* state the operator is, returns a not-supported failure to its caller.
C14_PullReturnsNotSupported ==
    \A i \in BuildLanes : pull_result[i] \in {NONE, NOT_IMPLEMENTED_ERROR}

\* C15: once the collector of the plan node is installed, every later lookup
\* returns that same collector, whatever calls follow on any lane.
C15_LookupStableAfterInstall ==
    [][hub.present => get_collector(hub') = get_collector(hub)]_vars

\* C15 witness: the collector is installed and read back unchanged after the
\* installing lane and a sibling lane have both closed.
C15_Witness ==
    /\ get_collector(hub) # NotReady
    /\ op_state[hub.writer] = "Closed"
    /\ \E j \in BuildLanes : j # hub.writer /\ op_state[j] = "Closed"

\* C16: a lookup finds a collector only when every registered build lane has
\* contributed its partial filters; until then, even with the Joiner already
\* in the probe phase, the lookup answers "not ready" and never an empty
\* collector.
C16_CollectorOnlyAfterAllContributed ==
    /\ get_collector(hub) # NotReady =>
          /\ \A i \in PreparedLanes : merger.slots[i] >= 0
          /\ merger.received = merger.num_builders
          /\ merger.num_builders = Cardinality(PreparedLanes)
    /\ (\E i \in PreparedLanes : merger.slots[i] < 0) =>
          /\ get_collector(hub) = NotReady
          /\ hub_set_count = 0

\* C16 witness: a lane has entered the probe phase, a sibling has not yet
\* contributed, and the lookup answers "not ready".
C16_Witness ==
    /\ joiner_phase = "probe"
    /\ \E i \in PreparedLanes : merger.slots[i] < 0
    /\ get_collector(hub) = NotReady

\* C17: when every lane of a partitioned join has contributed once, the row
\* count the merger has accumulated when the final contributor observes true
\* is the sum of the lanes' hash-table row counts, and the Hub then holds one
\* collector, built from that count.
C17_MergedRowCountIsSum ==
    distribution_mode = "PARTITIONED" =>
        /\ FinalContributors # {} =>
              /\ merger.received = NumLanes
              /\ merger.total_rows = SumOver(ht_rows, Lanes)
        /\ hub.present =>
              /\ hub.total_rows = SumOver(ht_rows, Lanes)
              /\ hub_set_count = 1

\* C17 witness: every lane contributed the largest row count and the
\* collector is installed.
C17_Witness ==
    /\ distribution_mode = "PARTITIONED"
    /\ \A i \in Lanes : ht_rows[i] = MaxRows /\ add_result[i] \in {"true", "false"}
    /\ hub.present
    /\ hub.total_rows = NumLanes * MaxRows

WorkUpToBuildHt == Bump(NoWork, "build_ht")
WorkUpToCreateRf == Bump(WorkUpToBuildHt, "create_rf")
WorkUpToAdd == Bump(Bump(WorkUpToCreateRf, "retain"), "add")

\* C19: a failure of build_ht, create_runtime_filters or add_partial_filters
\* ends set_finishing with that error kind; the steps after the failing one
\* have not run (no publication, no Hub installation, no probe-phase
\* transition by this call) and the steps before it are not undone (retained
\* key columns stay retained).
C19_FailureStopsWithoutRollback ==
    \A i \in Lanes :
        /\ sf_result[i] = MEM_LIMIT_EXCEEDED =>
              /\ work[i] = WorkUpToBuildHt
              /\ string_key_columns[i] = "empty"
        /\ sf_result[i] = CAPACITY_LIMIT_EXCEED =>
              /\ work[i] = WorkUpToCreateRf
              /\ string_key_columns[i] = "empty"
        /\ sf_result[i] = INTERNAL_ERROR =>
              /\ work[i] = WorkUpToAdd
              /\ string_key_columns[i] = "keys"
              /\ add_result[i] = "error"
        /\ sf_result[i] \in {MEM_LIMIT_EXCEEDED, CAPACITY_LIMIT_EXCEED, INTERNAL_ERROR} =>
              /\ is_finished[i] /\ pc[i] = "idle"
              /\ merger.slots[i] = -1
              /\ hub.writer # i

\* C19 witness: a lane failed in add_partial_filters with its key columns
\* retained, after a sibling had installed the collector.
C19_Witness ==
    \E i, j \in Lanes :
        /\ sf_result[i] = INTERNAL_ERROR
        /\ string_key_columns[i] = "keys"
        /\ hub.present /\ hub.writer = j /\ sf_result[j] = OK

\* Lifecycle stage of a build operator: Created until a prepare succeeds,
\* Prepared until its driver runs, Running until set_finishing is called.
StageOf(state_of_op, finishing_called, driver_phase) ==
    CASE state_of_op \in {"NoOperator", "Created", "PrepareFailed"} -> "Created"
      [] state_of_op = "Closed" -> "Closed"
      [] OTHER -> IF finishing_called THEN "Finishing"
                  ELSE IF driver_phase \in {"prepare", "abort"} THEN "Prepared"
                  ELSE "Running"

StageOrder ==
    {<<"Created", "Prepared">>, <<"Prepared", "Running">>,
     <<"Running", "Finishing">>, <<"Finishing", "Closed">>}

\* C20 as stated: a build operator moves Created, Prepared, Running,
\* Finishing, Closed in that order; chunks are appended only while Running,
\* set_finishing is called and does its work only after a successful prepare
\* and no chunk is appended after it, and once the operator is Closed no
\* operation on it changes the operator or the state it shares with its
\* siblings and the probers.
C20_LifecycleOrder ==
    [][\A i \in BuildLanes :
          LET before == StageOf(op_state[i], once[i], phase)
              after == StageOf(op_state'[i], once'[i], phase')
          IN /\ after # before => <<before, after>> \in StageOrder
             /\ ht_rows'[i] # ht_rows[i] => before = "Running"
             /\ sf_calls'[i] # sf_calls[i] =>
                   (before = "Running" /\ prepare_status[i] = OK)
             /\ work'[i] # work[i] =>
                   (before \in {"Running", "Finishing"} /\ prepare_status[i] = OK)
             /\ (before = "Closed" /\ close_calls'[i] # close_calls[i]) =>
                   /\ joiner_ref' = joiner_ref
                   /\ joiner_closed' = joiner_closed
                   /\ joiner_phase' = joiner_phase
                   /\ merger' = merger
                   /\ hub' = hub
             /\ before = "Closed" =>
                   /\ ht_rows'[i] = ht_rows[i] /\ work'[i] = work[i]
                   /\ add_result'[i] = add_result[i]
                   /\ once'[i] = once[i] /\ is_finished'[i] = is_finished[i]
                   /\ op_state'[i] = op_state[i]]_vars

\* Lanes whose partial filters the merger holds.
Contributors == {i \in Lanes : merger.slots[i] >= 0}

\* C21: a lane's string key columns are in its slot of the factory before
\* the lane submits its partial filters, the slot is written once and never
\* released or overwritten afterwards, so when the final contributor merges
\* the key columns of every contributing lane are retained.
C21_KeyColumnsOutliveMerge ==
    /\ [](\A i \in Lanes :
             /\ (pc[i] = "add" \/ i \in Contributors) =>
                   (string_key_columns[i] = "keys" /\ work[i].retain = 1)
             /\ work[i].retain <= 1)
    /\ [](FinalContributors # {} =>
             \A i \in Contributors : string_key_columns[i] = "keys")
    /\ [][\A i \in Lanes :
             string_key_columns[i] = "keys" => string_key_columns'[i] = "keys"]_vars

\* C21 witness: the final contributor of a partitioned join has merged and
\* installed, every lane has closed, and every lane's slot still holds its
\* key columns.
C21_Witness ==
    /\ distribution_mode = "PARTITIONED"
    /\ FinalContributors # {} /\ hub.present
    /\ Contributors = Lanes
    /\ \A i \in Lanes : op_state[i] = "Closed" /\ string_key_columns[i] = "keys"

\* C22: a push_chunk on lane i adds the chunk's rows to lane i's build data,
\* or adds nothing when the append fails, and changes nothing else: not the
\* merger, the Hub, the Joiner's reference count or phase, any finished flag
\* or any other lane's build data; and it has no precondition on the state of
\* the other lanes.
C22_PushChunkFrame ==
    /\ [][\A i \in Lanes :
            (ht_rows'[i] # ht_rows[i] \/ push_result'[i] # push_result[i]) =>
               /\ IF push_result'[i] = OK
                  THEN ht_rows'[i] - ht_rows[i] \in ChunkSizes
                  ELSE ht_rows'[i] = ht_rows[i]
               /\ \A j \in Lanes \ {i} : ht_rows'[j] = ht_rows[j]
               /\ UNCHANGED <<merger, hub, hub_set_count, published, joiner_ref,
                              joiner_closed, joiner_phase, is_finished, once, pc,
                              work, add_result, string_key_columns, op_state>>]_vars
    /\ [](\A i \in Lanes, n \in ChunkSizes : ENABLED push_chunk(i, n))

\* C22 witness: a lane has appended rows and is still running while a
\* sibling lane is inside set_finishing, about to contribute to the merger.
C22_Witness ==
    \E i, j \in BuildLanes :
        /\ ht_rows[i] > 0 /\ ~once[i] /\ op_state[i] = "Prepared"
        /\ pc[j] = "add"

\* Code and message of a _state.
Content(state) == <<state.code, state.msg>>

\* C23: a Status that starts as success and is then updated with s_1 .. s_n
\* holds the code and message of the first non-success s_i, or is success
\* when every s_i is; an update of a Status that holds a failure leaves its
\* code and message as they are.
C23_FirstErrorWins ==
    \A n \in StatusNames :
        status[n].live =>
            /\ Content(status[n].state) = Content(history[n].first)
            /\ ok(status[n]) <=> (history[n].first = Nullptr)
            /\ code(status[n]) = history[n].first.code

\* C23 witness: a Status holding a failure was updated with a different
\* failure and kept its own.
C23_Witness ==
    \E n, m \in StatusNames :
        /\ status[n].live /\ status[m].live
        /\ history[n].kept /\ history[m].handed
        /\ ~ok(status[n]) /\ ~ok(status[m])
        /\ ~history[n].moved /\ ~history[m].moved
        /\ Content(status[n].state) # Content(status[m].state)

\* C24 as stated: a Status that has been moved from, by move construction or
\* move assignment, is success (ok() is true, code() is OK) and is already
\* checked, so that destroying it reports nothing (unless must_check() was
\* called on it after the move).
C24_MovedFromIsSuccess ==
    \A n \in StatusNames :
        (status[n].live /\ history[n].moved) =>
            /\ ok(status[n])
            /\ code(status[n]) = OK
            /\ ~history[n].rearmed => status[n].checked

\* C25 as stated: ~Status reports the object exactly when no predicate,
\* code() or permit_unchecked_error call was made on it since it was last
\* constructed, assigned or set by an adopting update.
C25_Original ==
    [][\A n \in StatusNames :
          (status[n].live /\ ~status'[n].live) =>
              ((report' = "unchecked") <=> ~history[n].inspected)]_vars

\* C25 amended: ~Status reports the object exactly when, since it was last
\* constructed, assigned or set by an adopting update, no predicate, code()
\* or permit_unchecked_error call was made on it and it was neither the
\* source of a copy, a move or an update nor the receiver of an update that
\* kept its failure, or when must_check() was called on it after the latest
\* of these calls; an inspected object on which must_check() was not called
\* afterwards is never reported, and the report does not end the program.
C25_ReportedUnlessCheckedOrHandedOver ==
    [][\A n \in StatusNames :
          (status[n].live /\ ~status'[n].live) =>
              /\ (report' = "unchecked") <=>
                    \/ ~(history[n].inspected \/ history[n].handed
                         \/ history[n].kept)
                    \/ history[n].rearmed
              /\ (history[n].inspected /\ ~history[n].rearmed)
                    => report' = "silent"
              /\ phase' = phase]_vars

\* C25 witness: an object was reported at destruction while another one,
\* never inspected but handed over as the source of a copy, is still alive
\* and already marked checked, and one that was inspected had must_check()
\* called on it and is unchecked again.
C25_Witness ==
    /\ report = "unchecked"
    /\ \E n, m \in StatusNames :
          /\ status[n].live /\ status[n].checked
          /\ history[n].handed /\ ~history[n].inspected /\ ~history[n].moved
          /\ status[m].live /\ ~status[m].checked
          /\ history[m].inspected /\ history[m].rearmed

\* C26 as stated: whatever the statement wrapped in RETURN_IF_EXCEPTION
\* throws, the block is left either normally or by returning an internal
\* error; nothing propagates past it.
C26_NoExceptionPassesBoundary ==
    boundary \in {NONE, "continued", INTERNAL_ERROR}

\* Build lanes whose prepare returned OK.
SuccessfullyPrepared == {i \in BuildLanes : prepare_status[i] = OK}

\* C27 as stated: when k lanes have prepared successfully, in whatever order
\* the prepare calls ran, and nothing has been released yet, the merger
\* expects k builders and the Joiner holds two references for each of the k
\* lanes; every successful prepare adds one builder and two references, and
\* every close of a prepared lane releases exactly one reference and leaves
\* the expected-builder count alone.
C27_PreparedLanesRegistered ==
    /\ []((\A i \in BuildLanes : op_state[i] # "Closed" /\ prober[i] = "none")
             => /\ merger.num_builders = Cardinality(SuccessfullyPrepared)
                /\ \A i \in SuccessfullyPrepared : acquired[i] = 2)
    /\ [][\A i \in BuildLanes :
            /\ (op_state[i] = "Created" /\ op_state'[i] = "Prepared") =>
                  /\ merger'.num_builders = merger.num_builders + 1
                  /\ joiner_ref' = joiner_ref + 2
            /\ (op_state[i] = "Prepared" /\ op_state'[i] = "Closed") =>
                  /\ joiner_ref' = joiner_ref - 1
                  /\ merger'.num_builders = merger.num_builders]_vars

\* C28: in the final contributor's call the bloom filters are published
\* before the collector is installed, and the collector is installed before
\* the call makes the Joiner enter probe phase; a lane whose
\* add_partial_filters returned false publishes nothing and installs
\* nothing.
C28_PublishInstallEnterProbe ==
    \A i \in BuildLanes :
        /\ work[i].install <= work[i].publish
        /\ work[i].enter_probe <= work[i].add
        /\ (add_result[i] = "true" /\ work[i].install > 0) =>
              (published > 0 /\ hub.present /\ hub.writer = i)
        /\ (add_result[i] = "true" /\ work[i].enter_probe > 0) =>
              (work[i].publish = 1 /\ work[i].install = 1
               /\ hub.present /\ hub.writer = i)
        /\ (add_result[i] = "true" /\ pc[i] \in {"publish", "install"}) =>
              work[i].enter_probe = 0
        /\ add_result[i] = "false" =>
              (work[i].publish = 0 /\ work[i].install = 0 /\ hub.writer # i
               /\ pc[i] \notin {"publish", "install"})

\* C28 witness: of two lanes, one was told false and only entered probe
\* phase; the other, the final contributor, published, installed and then
\* entered probe phase.
C28_Witness ==
    \E i, j \in BuildLanes :
        /\ add_result[i] = "true" /\ add_result[j] = "false"
        /\ work[i].publish = 1 /\ work[i].install = 1 /\ work[i].enter_probe = 1
        /\ work[j].enter_probe = 1 /\ work[j].publish = 0
        /\ hub.writer = i /\ published = 1 /\ joiner_phase = "probe"

\* C29: no lane calls add_partial_filters before every build lane of the node
\* has completed prepare; once the first contribution has arrived the
\* merger's expected-builder count no longer changes, and a lane is taken for
\* the final contributor only when every build lane is registered.
C29_NoContributionBeforeAllPrepared ==
    /\ [](\A i \in BuildLanes :
             (pc[i] = "add" \/ work[i].add > 0) =>
                 /\ \A j \in BuildLanes : prepare_status[j] = OK
                 /\ merger.num_builders = Cardinality(BuildLanes))
    /\ [][merger.received > 0 =>
             merger'.num_builders = merger.num_builders]_vars
    /\ [](\A i \in BuildLanes :
             add_result[i] = "true" =>
                 \A j \in BuildLanes : acquired[j] = 2 /\ work[j].add = 1)

\* C29 witness: a lane has contributed and was told false while its sibling,
\* prepared and registered, has not yet contributed.
C29_Witness ==
    \E i, j \in BuildLanes :
        /\ add_result[i] = "false" /\ work[i].add = 1
        /\ work[j].add = 0 /\ prepare_status[j] = OK
        /\ merger.received = 1 /\ merger.num_builders = NumLanes

\* Operators of the factory that have reached retain_string_key_columns.
Retainers(f) ==
    {k \in DOMAIN f.ops : f.ops[k].pc \in {"writing", "racing", "retained"}}

C31_UpdateLeavesReceiverUnchecked ==
    \A n \in StatusNames :
        status[n].live =>
            /\ (history[n].kept /\ ~history[n].inspected /\ ~history[n].handed)
                  => ~status[n].checked
            /\ (history[n].handed /\ ~history[n].rearmed) => status[n].checked

\* C32: after init returned success the list of spill directories is not
\* empty; the k-th acquire_writable_dir call, counting from 0, gets
\* directory k mod the number of directories, which is a registered
\* directory, and callers that overlap get an index inside the list.
C32_RoundRobinInsideList ==
    dir_manager.init_status = OK =>
        /\ Len(dir_manager.dirs) >= 1
        /\ \A c \in Callers :
              dir_manager.ticket[c] >= 0 =>
                  /\ dir_manager.slot[c] = dir_manager.ticket[c] % Len(dir_manager.dirs)
                  /\ dir_manager.slot[c] \in 0..(Len(dir_manager.dirs) - 1)
                  /\ dir_manager.result[c] # 0 =>
                        dir_manager.result[c] = dir_manager.dirs[dir_manager.slot[c] + 1]
        /\ \A c, d \in Callers :
              (c # d /\ dir_manager.ticket[c] >= 0) =>
                  dir_manager.ticket[c] # dir_manager.ticket[d]

\* C32 witness: two directories are registered; the calls numbered 1 and 2
\* overlap, call 1 holds index 1 and call 2 has wrapped around to index 0.
C32_Witness ==
    /\ dir_manager.init_status = OK
    /\ Len(dir_manager.dirs) = 2
    /\ \E c, d \in Callers :
          /\ dir_manager.ticket[c] = 1 /\ dir_manager.slot[c] = 1
          /\ dir_manager.pc[c] = "fetched"
          /\ dir_manager.ticket[d] = 2 /\ dir_manager.slot[d] = 0
          /\ dir_manager.pc[d] = "idle"
          /\ dir_manager.result[d] = dir_manager.dirs[1]

\* C33: the promise returned by call_function_in_pthread is fulfilled exactly
\* once, with the Status func returned, when func ran inline and when it was
\* offered to the pool: it is never set twice or with another value, a call
\* that has returned inline has it set, and an offered call gets it set; once
\* the block around func is left the worker's memory tracker is the one it
\* had before the task.
C33_PromiseFulfilledOnce ==
    /\ [](\A k \in 1..Len(udf.promise) :
             /\ udf.promise[k].sets <= 1
             /\ udf.promise[k].sets = 1 => udf.promise[k].value = udf.func[k]
             /\ udf.promise[k].sets = 0 =>
                   \/ (k = udf.worker.task /\ udf.worker.pc # "idle")
                   \/ \E q \in 1..Len(udf.queue) : udf.queue[q] = k)
    /\ []((udf.worker.task > 0 /\ udf.worker.pc \in {"left", "idle"})
             => (/\ udf.worker.tracker \in IdleTrackers
                 /\ udf.worker.pc = "left" =>
                       udf.worker.tracker = udf.worker.before))
    /\ \A k \in 1..MaxCalls :
          (Len(udf.promise) >= k)
              ~> (Len(udf.promise) >= k /\ udf.promise[k].sets = 1)

\* C33 witness: one call ran inline and one on the pool; both promises are
\* set once, with different results, and the worker is back under the
\* tracker it had before the task, which is not the one it started with.
C33_Witness ==
    /\ Len(udf.promise) = 2
    /\ udf.queue = <<>> /\ udf.worker.pc = "idle" /\ udf.worker.task > 0
    /\ \A k \in 1..2 : udf.promise[k].sets = 1 /\ udf.promise[k].value = udf.func[k]
    /\ udf.func[1] # udf.func[2]
    /\ udf.worker.tracker = udf.worker.before
    /\ udf.worker.before = "query pool"

====
